---- MODULE Spec2Model ----
(***************************************************************************)
(* tools/generate_wordlist.py of Tali Forth 2: the word list generator.    *)
(* It reads the header comments of native_words.asm (lines that start with *)
(* the marker "; ## ", two per word), reads the label map of the assembler,*)
(* and prints a markdown table with one row per word and a footer with     *)
(* statistics.                                                             *)
(*                                                                         *)
(* Text is modelled as it is in the program: a line is a sequence of       *)
(* one-character strings, and startswith, strip, split, lower, slicing,    *)
(* int(.., 16) and str.format of an integer are computed on characters.    *)
(***************************************************************************)
EXTENDS Integers, Sequences, FiniteSets

\* Bounds of the model: the longest source file and the longest label map.
MaxSrcLines == 4
MaxLabLines == 2

(***************************************************************************)
(* Characters and the string methods the script uses                       *)
(***************************************************************************)

MARKER == <<";", " ", "#", "#", " ">>
HAVE_TEST == <<"t", "e", "s", "t", "e", "d">>
XT_PREFIX == <<"x", "t", "_">>
Z_PREFIX == <<"z", "_">>

UpperCase == <<"A", "B", "C", "D", "E", "F", "G", "H", "I", "J", "K", "L", "M",
               "N", "O", "P", "Q", "R", "S", "T", "U", "V", "W", "X", "Y", "Z">>
LowerCase == <<"a", "b", "c", "d", "e", "f", "g", "h", "i", "j", "k", "l", "m",
               "n", "o", "p", "q", "r", "s", "t", "u", "v", "w", "x", "y", "z">>
HexDigits == <<"0", "1", "2", "3", "4", "5", "6", "7", "8", "9",
               "a", "b", "c", "d", "e", "f">>
DecDigits == <<"0", "1", "2", "3", "4", "5", "6", "7", "8", "9">>

\* the backtick character (the lexer of TLA+ does not take it in a string)
BackTick == "backtick"

\* str.isspace of one character
IsSpace(c) == c \in {" ", "\t", "\n", "\r"}

\* the index of c in the sequence t, 0 when it is not there
IndexOf(c, t) == IF \E i \in 1..Len(t) : t[i] = c
                 THEN CHOOSE i \in 1..Len(t) : t[i] = c
                 ELSE 0

\* str.lower
LowerChar(c) == IF IndexOf(c, UpperCase) = 0 THEN c ELSE LowerCase[IndexOf(c, UpperCase)]
Lower(s) == [i \in 1..Len(s) |-> LowerChar(s[i])]

\* str.startswith
StartsWith(s, p) == Len(s) >= Len(p) /\ SubSeq(s, 1, Len(p)) = p

\* s[n:] and s[1:-1]
From(s, n) == SubSeq(s, n + 1, Len(s))
Inner(s) == SubSeq(s, 2, Len(s) - 1)

RECURSIVE LStrip(_)
LStrip(s) == IF s = <<>> THEN s
             ELSE IF IsSpace(Head(s)) THEN LStrip(Tail(s)) ELSE s

RECURSIVE RStrip(_)
RStrip(s) == IF s = <<>> THEN s
             ELSE IF IsSpace(s[Len(s)]) THEN RStrip(SubSeq(s, 1, Len(s) - 1)) ELSE s

\* str.strip
Strip(s) == RStrip(LStrip(s))

\* the length of the token at the start of t
RECURSIVE TokLen(_)
TokLen(t) == IF t = <<>> \/ IsSpace(Head(t)) THEN 0 ELSE 1 + TokLen(Tail(t))

\* str.split(maxsplit=m): at most m splits, the rest is the last element
RECURSIVE SplitMax(_, _)
SplitMax(s, m) ==
    LET t == LStrip(s) IN
    IF t = <<>> THEN <<>>
    ELSE IF m = 0 THEN <<t>>
    ELSE <<SubSeq(t, 1, TokLen(t))>> \o SplitMax(From(t, TokLen(t)), m - 1)

\* str.split()
RECURSIVE Split(_)
Split(s) ==
    LET t == LStrip(s) IN
    IF t = <<>> THEN <<>>
    ELSE <<SubSeq(t, 1, TokLen(t))>> \o Split(From(t, TokLen(t)))

\* str.replace('$', '0x')
RECURSIVE ReplaceDollar(_)
ReplaceDollar(s) ==
    IF s = <<>> THEN <<>>
    ELSE (IF Head(s) = "$" THEN <<"0", "x">> ELSE <<Head(s)>>) \o ReplaceDollar(Tail(s))

\* base 10 where base 16 is meant
RECURSIVE HexValueBase10(_)
HexValueBase10(d) == IF d = <<>> THEN 0
                     ELSE 10 * HexValueBase10(SubSeq(d, 1, Len(d) - 1))
                          + (IndexOf(LowerChar(d[Len(d)]), HexDigits) - 1)

\* the value of a string of hexadecimal digits
RECURSIVE HexValue(_)
HexValue(d) == IF d = <<>> THEN 0
               ELSE 16 * HexValue(SubSeq(d, 1, Len(d) - 1))
                    + (IndexOf(LowerChar(d[Len(d)]), HexDigits) - 1)

IsHexNumber(d) == d # <<>> /\ \A i \in 1..Len(d) : IndexOf(LowerChar(d[i]), HexDigits) # 0

\* int(s, 16): an optional 0x prefix, then hexadecimal digits; ok is FALSE where
\* Python raises ValueError
IntBase16(s) ==
    LET d == IF StartsWith(Lower(s), <<"0", "x">>) THEN From(s, 2) ELSE s IN
    IF IsHexNumber(d) THEN [ok |-> TRUE, val |-> HexValue(d)]
    ELSE [ok |-> FALSE, val |-> 0]

\* '{0}'.format(n) of an integer
RECURSIVE DecNat(_)
DecNat(n) == IF n < 10 THEN <<DecDigits[n + 1]>>
             ELSE DecNat(n \div 10) \o <<DecDigits[(n % 10) + 1]>>
Dec(n) == IF n < 0 THEN <<"-">> \o DecNat(0 - n) ELSE DecNat(n)


(***************************************************************************)
(* The two input files, as the model draws them                            *)
(***************************************************************************)

\* "; ## AB x": the first line of a pair, NAME is AB
FL_AB == <<";", " ", "#", "#", " ", "A", "B", " ", "x", "\n">>
\* "; ## "ab" tested f g": a second line with status tested, location "f g"
SL_TESTED == <<";", " ", "#", "#", " ", "\"", "a", "b", "\"", " ", "t", "e", "s", "t", "e", "d",
               " ", "f", " ", "g", "\n">>
\* "; ## "cd"  Tested f": a second line whose status is a near miss of tested
SL_NEAR == <<";", " ", "#", "#", " ", "\"", "c", "d", "\"", " ", " ", "T", "e", "s", "t", "e", "d",
             " ", "f", "\n">>
\* " nop": a line of code, no marker at its start
CODE_LINE == <<" ", "n", "o", "p", "\n">>

SrcLineSet == {FL_AB, SL_TESTED, SL_NEAR, CODE_LINE}

\* "$0F | xt_ab | f:1"
LAB_XT == <<"$", "0", "F", " ", "|", " ", "x", "t", "_", "a", "b", " ", "|", " ", "f", ":", "1", "\n">>
\* "$1c | z_ab | f:9"
LAB_Z == <<"$", "1", "c", " ", "|", " ", "z", "_", "a", "b", " ", "|", " ", "f", ":", "9", "\n">>
\* "$00 | cp | d:90": a label that is neither xt_ nor z_
LAB_OTHER == <<"$", "0", "0", " ", "|", " ", "c", "p", " ", "|", " ", "d", ":", "9", "0", "\n">>
\* an empty line
LAB_BLANK == <<"\n">>

LabLineSet == {LAB_XT, LAB_Z, LAB_OTHER, LAB_BLANK}

\* all sequences over S of length at most n
SeqUpTo(S, n) == UNION {[1..k -> S] : k \in 0..n}

\* a file: absent, or its lines
NoFile == [exists |-> FALSE, lines |-> <<>>]
Files(S, n) == {NoFile} \cup {[exists |-> TRUE, lines |-> l] : l \in SeqUpTo(S, n)}

(***************************************************************************)
(* State                                                                   *)
(***************************************************************************)

VARIABLES
    sourceFile,       \* native_words.asm, as the run finds it
    labelsFile,       \* docs/py65mon-labelmap.txt, as the run finds it
    run,              \* "first" or "second" invocation on these files
    prevOut,          \* what the first invocation printed
    pc,               \* the position in main()
    opened,           \* the files open() was called on in this invocation
    data_list,        \* main: the marker lines, stripped
    number_of_words,  \* main
    raw_list,         \* get_sizes: the lines of the label map
    li,               \* get_sizes: the index of the line the loop is at
    labels,           \* the global dictionary, label -> address
    not_tested,       \* the global counter
    pos,              \* main: the position of the iterator use_list
    out,              \* standard output, one element per print() call
    err,              \* the uncaught exception, "none" when there is none
    exit_status       \* the exit status of the process, -1 while it runs

vars == <<sourceFile, labelsFile, run, prevOut, pc, opened, data_list, number_of_words,
          raw_list, li, labels, not_tested, pos, out, err, exit_status>>

inputs == <<sourceFile, labelsFile>>

\* a printed line: what it is, and the values formatted into it
Event(kind, cols) == [kind |-> kind, cols |-> cols]

\* the empty dictionary
EmptyDict == [l \in {} |-> 0]

\* label_dict[k] = v
DictPut(d, k, v) == [l \in (DOMAIN d) \cup {k} |-> IF l = k THEN v ELSE d[l]]

\* an uncaught exception ends the process with status 1
Raise(kind) ==
    /\ err' = kind
    /\ exit_status' = 1
    /\ pc' = "crashed"

Init ==
    /\ sourceFile \in Files(SrcLineSet, MaxSrcLines)
    /\ labelsFile \in Files(LabLineSet, MaxLabLines)
    /\ run = "first"
    /\ prevOut = <<>>
    /\ pc = "read_source"
    /\ opened = {}
    /\ data_list = <<>>
    /\ number_of_words = 0
    /\ raw_list = <<>>
    /\ li = 1
    /\ labels = EmptyDict
    /\ not_tested = 0
    /\ pos = 1
    /\ out = <<>>
    /\ err = "none"
    /\ exit_status = -1

(***************************************************************************)
(* main(), lines 137-154: read the source, keep the marker lines, check    *)
(* that their number is even                                               *)
(***************************************************************************)

\* lines 140-145: the lines that start with the marker, stripped, in file order
RECURSIVE DataListUnfiltered(_)
DataListUnfiltered(raw) ==
    IF raw = <<>> THEN <<>>
    ELSE <<Strip(Head(raw))>> \o DataListUnfiltered(Tail(raw))

RECURSIVE DataList(_)
DataList(raw) ==
    IF raw = <<>> THEN <<>>
    ELSE (IF StartsWith(Head(raw), MARKER) THEN <<Strip(Head(raw))>> ELSE <<>>)
         \o DataList(Tail(raw))

ReadSource ==
    /\ pc = "read_source"
    /\ opened' = opened \cup {"SOURCE"}
    /\ IF sourceFile.exists
       THEN /\ data_list' = DataList(sourceFile.lines)
            /\ pc' = "parity"
            /\ UNCHANGED <<err, exit_status>>
       ELSE /\ Raise("FileNotFoundError")
            /\ UNCHANGED data_list
    /\ UNCHANGED <<inputs, run, prevOut, number_of_words, raw_list, li, labels,
                   not_tested, pos, out>>

\* the check left out: the run goes on whatever the number of lines
ParityCheckNoAbort ==
    /\ pc = "parity"
    /\ number_of_words' = Len(data_list) \div 2
    /\ pos' = 1
    /\ pc' = "open_labels"
    /\ UNCHANGED <<inputs, run, prevOut, opened, data_list, raw_list, li, labels,
                   not_tested, out, err, exit_status>>

\* the test the wrong way round: an even number of lines aborts
ParityCheckInverted ==
    /\ pc = "parity"
    /\ IF Len(data_list) % 2 = 0
       THEN /\ out' = Append(out, Event("odd_message", <<>>))
            /\ exit_status' = 1
            /\ pc' = "exited"
            /\ UNCHANGED <<number_of_words, pos>>
       ELSE /\ number_of_words' = Len(data_list) \div 2
            /\ pos' = 1
            /\ pc' = "open_labels"
            /\ UNCHANGED <<out, exit_status>>
    /\ UNCHANGED <<inputs, run, prevOut, opened, data_list, raw_list, li, labels,
                   not_tested, err>>

\* lines 149-154
ParityCheck ==
    /\ pc = "parity"
    /\ IF Len(data_list) % 2 # 0
       THEN /\ out' = Append(out, Event("odd_message", <<>>))
            /\ exit_status' = 1
            /\ pc' = "exited"
            /\ UNCHANGED <<number_of_words, pos>>
       ELSE /\ number_of_words' = Len(data_list) \div 2
            /\ pos' = 1
            /\ pc' = "open_labels"
            /\ UNCHANGED <<out, exit_status>>
    /\ UNCHANGED <<inputs, run, prevOut, opened, data_list, raw_list, li, labels,
                   not_tested, err>>

(***************************************************************************)
(* get_sizes(), lines 23-46                                                *)
(***************************************************************************)

\* lines 32-33
GetSizesOpen ==
    /\ pc = "open_labels"
    /\ opened' = opened \cup {"LABELS"}
    /\ IF labelsFile.exists
       THEN /\ raw_list' = labelsFile.lines
            /\ li' = 1
            /\ pc' = IF labelsFile.lines = <<>> THEN "intro" ELSE "get_sizes"
            /\ UNCHANGED <<err, exit_status>>
       ELSE /\ Raise("FileNotFoundError")
            /\ UNCHANGED <<raw_list, li>>
    /\ UNCHANGED <<inputs, run, prevOut, data_list, number_of_words, labels,
                   not_tested, pos, out>>

\* line 38: the labels that are kept
IsWantedAny(label) == TRUE
IsWanted(label) == StartsWith(label, XT_PREFIX) \/ StartsWith(label, Z_PREFIX)

\* lines 35-44, one line of the label map: what the iteration does to the
\* dictionary, or the exception it raises
LoadLine(line, label_dict) ==
    LET ws == Split(line) IN
    IF Len(ws) < 3 THEN [err |-> "IndexError", dict |-> label_dict]
    ELSE IF ~IsWanted(ws[3]) THEN [err |-> "none", dict |-> label_dict]
    ELSE LET addr == IntBase16(ReplaceDollar(ws[1])) IN
         IF ~addr.ok THEN [err |-> "ValueError", dict |-> label_dict]
         ELSE [err |-> "none", dict |-> DictPut(label_dict, ws[3], addr.val)]

\* lines 35-46: one iteration of the loop; after the last line, back in main
GetSizesLine ==
    /\ pc = "get_sizes"
    /\ li <= Len(raw_list)
    /\ LET r == LoadLine(raw_list[li], labels) IN
       IF r.err = "none"
       THEN /\ labels' = r.dict
            /\ li' = li + 1
            /\ pc' = IF li = Len(raw_list) THEN "intro" ELSE "get_sizes"
            /\ UNCHANGED <<err, exit_status>>
       ELSE /\ Raise(r.err)
            /\ UNCHANGED <<labels, li>>
    /\ UNCHANGED <<inputs, run, prevOut, opened, data_list, number_of_words, raw_list,
                   not_tested, pos, out>>

(***************************************************************************)
(* calc_size(), lines 49-62, and the printing functions, lines 65-132      *)
(***************************************************************************)

Concat(a, b) == a \o b

\* a missing label counts as address 0
CalcSizeDefault(word, raw_labels) ==
    LET start == Concat(XT_PREFIX, word)
        end == Concat(Z_PREFIX, word)
        start_addr == IF start \in DOMAIN raw_labels THEN raw_labels[start] ELSE 0
        end_addr == IF end \in DOMAIN raw_labels THEN raw_labels[end] ELSE 0
    IN  [err |-> "none", size |-> end_addr - start_addr]

\* lines 54-62; raw_labels[..] of an absent label raises KeyError
CalcSize(word, raw_labels) ==
    LET start == Concat(XT_PREFIX, word)
        end == Concat(Z_PREFIX, word)
    IN  IF start \notin DOMAIN raw_labels \/ end \notin DOMAIN raw_labels
        THEN [err |-> "KeyError", size |-> 0]
        ELSE [err |-> "none", size |-> raw_labels[end] - raw_labels[start]]

\* lines 69-75: seven print() calls
PrintIntro ==
    /\ pc = "intro"
    /\ out' = out \o [i \in 1..7 |-> Event("intro", <<Dec(i)>>)]
    /\ pc' = "header"
    /\ UNCHANGED <<inputs, run, prevOut, opened, data_list, number_of_words, raw_list, li,
                   labels, not_tested, pos, err, exit_status>>

\* the call of print_header() left out
PrintHeaderMissing ==
    /\ pc = "header"
    /\ pc' = "rows"
    /\ UNCHANGED <<inputs, run, prevOut, opened, data_list, number_of_words, raw_list, li,
                   labels, not_tested, pos, out, err, exit_status>>

\* lines 90-91
PrintHeader ==
    /\ pc = "header"
    /\ out' = out \o <<Event("header_titles", <<>>), Event("header_align", <<>>)>>
    /\ pc' = "rows"
    /\ UNCHANGED <<inputs, run, prevOut, opened, data_list, number_of_words, raw_list, li,
                   labels, not_tested, pos, err, exit_status>>

\* the comparison made without regard to case
NotTestedAfterAnyCase(status, n) == IF Lower(status) # HAVE_TEST THEN n + 1 ELSE n

\* lines 125-126
NotTestedAfter(status, n) == IF status # HAVE_TEST THEN n + 1 ELSE n

\* lines 129-130
StatusShown(status) ==
    IF status = HAVE_TEST THEN <<"*", "*">> \o status \o <<"*", "*">> ELSE status

\* lines 110-132: the row print_line prints for the pair (fl, sl) and the counter
\* after it, or the exception raised before anything is counted or printed
PrintLineResult(fl, sl, raw_labels, n) ==
    LET l1 == Split(From(fl, Len(MARKER)))
        l2 == SplitMax(From(sl, Len(MARKER)), 2)
        none == [err |-> "none", cols |-> <<>>, not_tested |-> n]
    IN  IF Len(l1) < 1 \/ Len(l2) < 1 THEN [none EXCEPT !.err = "IndexError"]
        ELSE LET name == l1[1]
                 word == <<BackTick>> \o Inner(l2[1]) \o <<BackTick>>
                 size == CalcSize(Lower(name), raw_labels)
             IN  IF size.err # "none" THEN [none EXCEPT !.err = size.err]
                 ELSE IF Len(l2) < 3 THEN [none EXCEPT !.err = "IndexError"]
                 ELSE [err |-> "none",
                       cols |-> <<name, word, l2[3], Dec(size.size), StatusShown(l2[2])>>,
                       not_tested |-> NotTestedAfter(l2[2], n)]

\* the pairs taken from the end of the list
NextPairFromEnd(list, p) == <<list[Len(list) - p], list[Len(list) - p + 1]>>

\* lines 164-165: two next() calls on the iterator at position p
NextPair(list, p) == <<list[p], list[p + 1]>>

\* lines 161-169: one turn of the loop that finds two more lines
PrintLine ==
    /\ pc = "rows"
    /\ pos + 1 <= Len(data_list)
    /\ LET pair == NextPair(data_list, pos)
           r == PrintLineResult(pair[1], pair[2], labels, not_tested)
       IN  IF r.err = "none"
           THEN /\ not_tested' = r.not_tested
                /\ out' = Append(out, Event("row", r.cols))
                /\ pos' = pos + 2
                /\ UNCHANGED <<pc, err, exit_status>>
           ELSE /\ Raise(r.err)
                /\ pos' = pos + 2
                /\ UNCHANGED <<not_tested, out>>
    /\ UNCHANGED <<inputs, run, prevOut, opened, data_list, number_of_words, raw_list, li,
                   labels>>

\* lines 166-167 and 172, 82-85: StopIteration leaves the loop, then print_footer
PrintFooter ==
    /\ pc = "rows"
    /\ pos + 1 > Len(data_list)
    /\ out' = out \o <<Event("blank", <<>>),
                       Event("found", <<Dec(number_of_words)>>),
                       Event("not_marked", <<Dec(not_tested)>>),
                       Event("blank", <<>>)>>
    /\ exit_status' = 0
    /\ pc' = "done"
    /\ UNCHANGED <<inputs, run, prevOut, opened, data_list, number_of_words, raw_list, li,
                   labels, not_tested, pos, err>>

(***************************************************************************)
(* The tool run a second time on the same files: a new process, in which   *)
(* the module-level statements of lines 17-20 run again                    *)
(***************************************************************************)

Terminated == pc \in {"done", "exited", "crashed"}

\* the counter of the first run carried over
RunAgainStale ==
    /\ Terminated
    /\ run = "first"
    /\ run' = "second"
    /\ prevOut' = out
    /\ pc' = "read_source"
    /\ opened' = {}
    /\ data_list' = <<>>
    /\ number_of_words' = 0
    /\ raw_list' = <<>>
    /\ li' = 1
    /\ labels' = EmptyDict
    /\ pos' = 1
    /\ out' = <<>>
    /\ err' = "none"
    /\ exit_status' = -1
    /\ UNCHANGED <<inputs, not_tested>>

RunAgain ==
    /\ Terminated
    /\ run = "first"
    /\ run' = "second"
    /\ prevOut' = out
    /\ pc' = "read_source"
    /\ opened' = {}
    /\ data_list' = <<>>
    /\ number_of_words' = 0
    /\ raw_list' = <<>>
    /\ li' = 1
    /\ labels' = EmptyDict
    /\ not_tested' = 0
    /\ pos' = 1
    /\ out' = <<>>
    /\ err' = "none"
    /\ exit_status' = -1
    /\ UNCHANGED inputs

Next ==
    \/ ReadSource
    \/ ParityCheck
    \/ GetSizesOpen
    \/ GetSizesLine
    \/ PrintIntro
    \/ PrintHeader
    \/ PrintLine
    \/ PrintFooter
    \/ RunAgain

Spec == Init /\ [][Next]_vars

(***************************************************************************)
(* What the properties speak of, read off the input files and the output   *)
(***************************************************************************)

SrcLines == sourceFile.lines
LabLines == labelsFile.lines

\* the indices of the source lines that start with the marker
MarkerIdx == {i \in 1..Len(SrcLines) :
                 StartsWith(SrcLines[i], <<";", " ", "#", "#", " ">>)}
MarkerCount == Cardinality(MarkerIdx)
OddCount == sourceFile.exists /\ MarkerCount % 2 = 1

\* the text after the marker of the j-th marker line, counted in file order
MarkerLine(j) ==
    LET i == CHOOSE x \in MarkerIdx : Cardinality({y \in MarkerIdx : y < x}) = j - 1
    IN  Strip(From(SrcLines[i], 5))

\* the pair the k-th row is to come from
FirstLineOf(k) == MarkerLine(2 * k - 1)
SecondLineOf(k) == MarkerLine(2 * k)
NameOf(k) == Split(FirstLineOf(k))[1]

\* the pairs the row loop has taken from the iterator
PairsTaken == (pos - 1) \div 2

\* the printed lines of each kind
Rows == SelectSeq(out, LAMBDA e : e.kind = "row")
NumRows == Len(Rows)
KindsOf(o) == [i \in 1..Len(o) |-> o[i].kind]
ReportKinds == {"intro", "header_titles", "header_align", "row", "blank", "found", "not_marked"}
NoReport == \A i \in 1..Len(out) : out[i].kind \notin ReportKinds
IntroAndHeader == [i \in 1..9 |-> IF i <= 7 THEN "intro"
                                  ELSE IF i = 8 THEN "header_titles" ELSE "header_align"]
FooterKinds == <<"blank", "found", "not_marked", "blank">>
FooterPrinted == \E i \in 1..Len(out) : out[i].kind \in {"blank", "found", "not_marked"}

\* the symbol table has both labels of the word
InTable(word) == (XT_PREFIX \o word) \in DOMAIN labels /\ (Z_PREFIX \o word) \in DOMAIN labels

\* the load of the label map has failed
LoadFailed == pc = "crashed" /\ "LABELS" \in opened /\ pos = 1

\* the load has failed on the line at li
LineFailed == LoadFailed /\ labelsFile.exists

\* C1: when the number of marker lines is odd, the run ends with exit status 1
\* once the check has been made, and no line of the report is ever printed.
C1_OddAbortsNoReport ==
    OddCount =>
        /\ NoReport
        /\ pc \notin {"read_source", "parity"} => (pc = "exited" /\ exit_status = 1)

C1_Witness ==
    /\ OddCount
    /\ pc = "exited"
    /\ exit_status = 1
    /\ KindsOf(out) = <<"odd_message">>

\* C2: a pair whose label xt_<name> or z_<name> is not in the symbol table stops
\* the run when it is processed: the run has crashed with KeyError, the intro,
\* the header and the rows of the pairs before it are all that was printed.
C2_MissingLabelAborts ==
    \A k \in 1..PairsTaken :
        ~InTable(Lower(NameOf(k))) =>
            /\ k = PairsTaken
            /\ pc = "crashed"
            /\ err = "KeyError"
            /\ exit_status = 1
            /\ KindsOf(out) = IntroAndHeader \o [i \in 1..(k - 1) |-> "row"]

C2_Witness ==
    /\ PairsTaken = 2
    /\ ~InTable(Lower(NameOf(2)))
    /\ err = "KeyError"
    /\ NumRows = 1

\* the two hexadecimal digits of a number below 256
TwoHex(a) == <<HexDigits[(a \div 16) + 1], HexDigits[(a % 16) + 1]>>

\* the address the label map gives for a label: the number whose hexadecimal
\* digits follow the $ on the last line that has the label in its label field
ListedAddress(label) ==
    LET at == {i \in 1..Len(LabLines) :
                  Len(Split(LabLines[i])) >= 3 /\ Split(LabLines[i])[3] = label}
        last == CHOOSE i \in at : \A j \in at : j <= i
        text == Lower(Split(LabLines[last])[1])
    IN  CHOOSE a \in 0..255 : text = <<"$">> \o TwoHex(a)

\* C3: the BYTES column of every printed row is the address the label map
\* gives for z_<n> minus the one it gives for xt_<n>, n the lowercased NAME.
C3_BytesIsDifference ==
    \A k \in 1..NumRows :
        Rows[k].cols[4] = Dec(ListedAddress(Z_PREFIX \o Lower(NameOf(k)))
                              - ListedAddress(XT_PREFIX \o Lower(NameOf(k))))

C3_Witness ==
    /\ NumRows >= 1
    /\ Rows[1].cols[4] = <<"1", "3">>

\* the status token of the pair of the k-th row, as it is written
RawStatus(k) == Split(SecondLineOf(k))[2]
NotTestedRows == {k \in 1..NumRows : RawStatus(k) # <<"t", "e", "s", "t", "e", "d">>}

\* C4: the counter is at every point the number of printed rows whose status
\* token is not exactly tested, and the footer prints that number.
C4_NotTestedCount ==
    /\ not_tested = Cardinality(NotTestedRows)
    /\ pc = "done" =>
          \E i \in 1..Len(out) :
              out[i] = Event("not_marked", <<Dec(Cardinality(NotTestedRows))>>)

C4_Witness ==
    /\ pc = "done"
    /\ NumRows = 2
    /\ not_tested = 1
    /\ RawStatus(2) = <<"T", "e", "s", "t", "e", "d">>

\* the label map is there, each of its lines has the three fields the loader
\* expects, and it has a line for the label
Listed(label) ==
    \E i \in 1..Len(LabLines) : Split(LabLines[i])[3] = label
WellFormed ==
    /\ sourceFile.exists
    /\ MarkerCount % 2 = 0
    /\ labelsFile.exists
    /\ \A i \in 1..Len(LabLines) : Len(Split(LabLines[i])) >= 3
    /\ \A k \in 1..(MarkerCount \div 2) :
          /\ Len(Split(FirstLineOf(k))) >= 1
          /\ Len(SplitMax(SecondLineOf(k), 2)) = 3
          /\ Listed(XT_PREFIX \o Lower(NameOf(k)))
          /\ Listed(Z_PREFIX \o Lower(NameOf(k)))

\* C5: on a well-formed input the run ends normally, and with half as many
\* rows printed as the source has marker lines.
C5_RowsAreHalfTheMarkerLines ==
    (Terminated /\ WellFormed) =>
        /\ pc = "done"
        /\ 2 * NumRows = MarkerCount

C5_Witness ==
    /\ WellFormed
    /\ pc = "done"
    /\ MarkerCount = 4
    /\ NumRows = 2

NoWantedLabel(line) ==
    LET fields == Split(line) IN
    \/ Len(fields) < 3
    \/ /\ ~StartsWith(fields[3], <<"x", "t", "_">>)
       /\ ~StartsWith(fields[3], <<"z", "_">>)
HasThreeFields(line) == Len(Split(line)) >= 3

\* the load of the label map is under way, has just ended, or has failed on a line
Loading == pc \in {"get_sizes", "intro"} \/ LineFailed

\* the lines of the label map the loader has gone past
LinesLoaded == IF pc = "get_sizes" \/ LineFailed THEN li - 1 ELSE Len(raw_list)

\* the label fields of the loaded lines that start with xt_ or z_
WantedLabelsLoaded ==
    {Split(raw_list[i])[3] : i \in {j \in 1..LinesLoaded : ~NoWantedLabel(raw_list[j])}}

\* C7, as the claim has it: no line without an xt_ or z_ label, a blank line or
\* a line of fewer than three fields included, makes the load fail or adds an
\* entry to the symbol table.
C7_EveryOtherLineSkipped ==
    /\ LineFailed => ~NoWantedLabel(raw_list[li])
    /\ Loading => DOMAIN labels = WantedLabelsLoaded

\* C7, amended: a line of at least three fields whose third field does not start
\* with xt_ or z_ is skipped, it adds no entry and raises no error and the load
\* goes on; a line of fewer than three fields is not skipped, the load fails on
\* it with IndexError.
C7_ThreeFieldLinesSkipped ==
    /\ LineFailed =>
          IF HasThreeFields(raw_list[li]) THEN ~NoWantedLabel(raw_list[li])
          ELSE err = "IndexError" /\ exit_status = 1
    /\ Loading =>
          /\ \A i \in 1..LinesLoaded : HasThreeFields(raw_list[i])
          /\ DOMAIN labels = WantedLabelsLoaded

C7_Witness ==
    /\ pc = "intro"
    /\ Len(raw_list) = 2
    /\ HasThreeFields(raw_list[1])
    /\ NoWantedLabel(raw_list[1])
    /\ Cardinality(DOMAIN labels) = 1

\* the columns a row has for the pair (fl, sl), marker taken off
RowFor(fl, sl) ==
    LET l2 == SplitMax(sl, 2) IN
    <<Split(fl)[1],
      <<BackTick>> \o SubSeq(l2[1], 2, Len(l2[1]) - 1) \o <<BackTick>>,
      l2[3],
      IF l2[2] = <<"t", "e", "s", "t", "e", "d">>
      THEN <<"*", "*", "t", "e", "s", "t", "e", "d", "*", "*">> ELSE l2[2]>>

\* C8: the k-th printed row has the name of marker line 2k-1 and the word, the
\* location and the status of marker line 2k, marker lines counted in file order.
C8_RowsInSourceOrder ==
    \A k \in 1..NumRows :
        /\ Len(Split(FirstLineOf(k))) >= 1
        /\ Len(SplitMax(SecondLineOf(k), 2)) = 3
        /\ <<Rows[k].cols[1], Rows[k].cols[2], Rows[k].cols[3], Rows[k].cols[5]>>
              = RowFor(FirstLineOf(k), SecondLineOf(k))

C8_Witness ==
    /\ NumRows = 2
    /\ Rows[1] # Rows[2]

\* s is the beginning of t
IsPrefix(s, t) == Len(s) <= Len(t) /\ SubSeq(t, 1, Len(s)) = s

\* C9: what is printed is the intro, the two header lines, the rows, a blank
\* line and the two summary lines, in this order; the summary is there only
\* when the run has ended normally with a row printed for every pair.
C9_OutputOrder ==
    /\ \/ KindsOf(out) = <<"odd_message">>
       \/ IsPrefix(KindsOf(out), IntroAndHeader \o [i \in 1..NumRows |-> "row"] \o FooterKinds)
    /\ FooterPrinted =>
          /\ pc = "done"
          /\ err = "none"
          /\ 2 * NumRows = MarkerCount
          /\ KindsOf(out) = IntroAndHeader \o [i \in 1..NumRows |-> "row"] \o FooterKinds

C9_Witness ==
    /\ pc = "done"
    /\ NumRows = 2
    /\ FooterPrinted

\* C10: with an odd number of marker lines the label map is never opened, the
\* symbol table stays empty and the run ends with the message and status 1;
\* the load of the label map runs, and fails, only with an even number and
\* before anything is printed.
C10_ParityBeforeLabels ==
    /\ OddCount =>
          /\ "LABELS" \notin opened
          /\ labels = EmptyDict
          /\ Terminated =>
                (pc = "exited" /\ exit_status = 1 /\ err = "none"
                    /\ KindsOf(out) = <<"odd_message">>)
    /\ (pc \in {"open_labels", "get_sizes"} \/ LoadFailed) =>
          (MarkerCount % 2 = 0 /\ out = <<>>)

C10_Witness ==
    /\ OddCount
    /\ ~labelsFile.exists
    /\ pc = "exited"
    /\ exit_status = 1

C10_WitnessLoadFails ==
    /\ LoadFailed
    /\ MarkerCount = 2
    /\ out = <<>>

====
